---- MODULE Spec2Model ----
(***************************************************************************)
(* The sign-board relay of app.py: the connection registry (esp32_clients, *)
(* browser_clients), the fan-out primitives (broadcast_status, send_config,*)
(* send_segment), the tile loops of the render path and of the binary      *)
(* passthrough, and websocket_handler's message dispatch; and, each on its  *)
(* own, send_segment's packet header and build_attrlist's script runs.     *)
(*                                                                         *)
(* The program is one asyncio event loop: a handler runs without           *)
(* interruption from one await to the next.  The awaits are the receive of *)
(* the next message, each send to one recipient, and the pacing sleep.     *)
(* Every other control point is "urgent": while a handler stands at one,   *)
(* no other handler takes a step.                                          *)
(***************************************************************************)
EXTENDS Integers, Sequences, FiniteSets, TLC

\* ---- bounds of the model
NumConns == 2
MaxWidth == 600
MaxPixels == 16777216
MaxLen == 3

\* ---- program constants
MAX_SEGMENT_WIDTH == 192
SEGMENT_DELAY_MS == 10

Conns == 1..NumConns

\* Frame widths a request may carry here: an empty frame and a three-tile frame,
\* the shortest that is paced.
Widths == {0, 2 * MAX_SEGMENT_WIDTH + 1}

\* render_line_surface never returns a surface narrower than one pixel.
RenderWidths == Widths \ {0}

VARIABLES
  esp32_clients,    \* the Devices set
  browser_clients,  \* the Controllers set
  pc,               \* each handler's control point
  broken,           \* transport closing: a send to it raises
  fan,              \* each handler's fan-out call in progress
  frame,            \* each handler's tile loop locals
  msg,              \* the kind of message each handler is handling
  statuses,         \* status events broadcast for the current message
  tiles,            \* the tiles send_segment was called with, in order
  fwd,              \* the latest send_segment call of each handler
  seg,              \* send_segment's arguments and the packet it frames
  attr              \* build_attrlist's text and the runs it finds

vars == <<esp32_clients, browser_clients, pc, broken, fan, frame, msg, statuses, tiles,
          fwd, seg, attr>>

Min(a, b) == IF a <= b THEN a ELSE b

NoFan == [kind |-> "none", snap |-> {}, pend |-> {}, dead |-> {},
          got |-> [t \in Conns |-> 0], ret |-> "none"]

NoFrame == [path |-> "none", total_w |-> 0, x |-> 0, seg_w |-> 0, sent |-> 0,
            delays |-> 0]

\* for ws in list(clients): the snapshot the loop walks, nothing sent yet.
Fan(kind, clients, ret) ==
  [kind |-> kind, snap |-> clients, pend |-> clients, dead |-> {},
   got |-> [t \in Conns |-> 0], ret |-> ret]

\* empty: the call found no device; pkts: the packets it delivered; st: the
\* length of the status log when it began.  Over the calls of one frame, miss:
\* the connections that were absent from a call's snapshot or to which a send
\* raised; rx: the tiles delivered to each connection that missed none.
NoFwd == [empty |-> FALSE, pkts |-> 0, st |-> 0, rx |-> [t \in Conns |-> 0],
          miss |-> {}]

\* The record of the frame's deliveries once the connections in S have missed
\* a tile.
Missed(f, S) == [f EXCEPT !.miss = @ \cup S,
                          !.rx = [t \in Conns |-> IF t \in S THEN 0 ELSE @[t]]]

Status(level, message) == [level |-> level, message |-> message]

UrgentPcs == {"register", "try", "send_config", "render", "tile_loop",
              "seg_done", "advance", "done", "finally", "exit"}

\* The handler stands between two awaits.
Urgent(d) == pc[d] \in UrgentPcs \/ (pc[d] = "fan" /\ fan[d].pend = {})

\* The event loop can resume c: no other handler is in the middle of a run.
Ready(c) == \A d \in Conns \ {c} : ~Urgent(d)

\* No packet framed yet.
NoSeg == [total_w |-> 0, seg_x |-> 0, seg_w |-> 0, h |-> 0, pkt |-> <<>>, len |-> 0]

\* No text shaped yet.
NoAttr == [text |-> <<>>, runs |-> <<>>, built |-> FALSE]

\* Nobody is connected.
Idle ==
  /\ esp32_clients = {}
  /\ browser_clients = {}
  /\ pc = [c \in Conns |-> "new"]
  /\ broken = [c \in Conns |-> FALSE]
  /\ fan = [c \in Conns |-> NoFan]
  /\ frame = [c \in Conns |-> NoFrame]
  /\ msg = [c \in Conns |-> "none"]
  /\ statuses = [c \in Conns |-> <<>>]
  /\ tiles = [c \in Conns |-> <<>>]
  /\ fwd = [c \in Conns |-> NoFwd]

Init == Idle /\ seg = NoSeg /\ attr = NoAttr

\* await broadcast_status(message, level) begun by c over `clients`, to
\* continue at `ret`; `log` is the status log it extends.
broadcast_status(c, clients, log, message, level, ret) ==
  /\ fan' = [fan EXCEPT ![c] = Fan("status", clients, ret)]
  /\ statuses' = [statuses EXCEPT ![c] = Append(log, Status(level, message))]
  /\ pc' = [pc EXCEPT ![c] = "fan"]

\* A handler that registers the connection before it announces it.
Connect_RegisterFirst(c) ==
  /\ Ready(c)
  /\ pc[c] = "new"
  /\ msg' = [msg EXCEPT ![c] = "connect"]
  /\ esp32_clients' = esp32_clients \cup {c}
  /\ broadcast_status(c, browser_clients, <<>>, "connected", "info", "register")
  /\ UNCHANGED <<fwd, browser_clients, broken, frame, tiles>>
  /\ UNCHANGED <<seg, attr>>

\* ws.prepare returned: the "connected" status goes out first.
Connect(c) ==
  /\ Ready(c)
  /\ pc[c] = "new"
  /\ msg' = [msg EXCEPT ![c] = "connect"]
  /\ broadcast_status(c, browser_clients, <<>>, "connected", "info", "register")
  /\ UNCHANGED <<fwd, esp32_clients, browser_clients, broken, frame, tiles>>
  /\ UNCHANGED <<seg, attr>>

\* esp32_clients.add(ws), then the message loop.
Register(c) ==
  /\ Ready(c)
  /\ pc[c] = "register"
  /\ esp32_clients' = esp32_clients \cup {c}
  /\ pc' = [pc EXCEPT ![c] = "recv"]
  /\ UNCHANGED <<fwd, browser_clients, broken, fan, frame, msg, statuses, tiles>>
  /\ UNCHANGED <<seg, attr>>

\* ---- the fan-out loops of broadcast_status, send_config and send_segment

\* try: await ws.send_*(payload)  except: dead.append(ws)
SendFails(t) == broken[t]

\* A loop that a raised send ends.
Remaining_StopOnFailure(f, t) == IF broken[t] THEN {} ELSE f.pend \ {t}

\* The recipients the loop still has to visit once the send to t is over.
Remaining(f, t) == f.pend \ {t}

\* A cleanup that writes the snapshot back without the dead.
AfterCleanup_FromSnapshot(clients, f) == (clients \cup f.snap) \ f.dead

\* for d in dead: clients.discard(d)
AfterCleanup(clients, f) == clients \ f.dead

\* list(clients) yields the members in the set's own order; the handles are
\* numbered in that order.
NextRecipient(f) == CHOOSE t \in f.pend : \A u \in f.pend : t <= u

\* One send of the loop completes, delivered or raised.
FanSend(c, t) ==
  /\ Ready(c)
  /\ pc[c] = "fan"
  /\ fan[c].pend # {}
  /\ t = NextRecipient(fan[c])
  /\ LET f == fan[c]
         ok == ~SendFails(t)
     IN /\ fan' = [fan EXCEPT ![c] =
                     [f EXCEPT !.pend = Remaining(f, t),
                               !.dead = IF ok THEN @ ELSE @ \cup {t},
                               !.got = IF ok THEN [@ EXCEPT ![t] = @ + 1] ELSE @]]
        /\ fwd' = IF f.kind # "segment" THEN fwd
                  ELSE IF ~ok THEN [fwd EXCEPT ![c] = Missed(@, {t})]
                  ELSE [fwd EXCEPT ![c].pkts = @ + 1,
                                   ![c].rx[t] = IF t \in fwd[c].miss THEN 0 ELSE @ + 1]
  /\ UNCHANGED <<esp32_clients, browser_clients, pc, broken, frame, msg, statuses,
                 tiles>>
  /\ UNCHANGED <<seg, attr>>

\* The loop is over: the dead recipients are discarded and the call returns.
FanReturn(c) ==
  /\ Ready(c)
  /\ pc[c] = "fan"
  /\ fan[c].pend = {}
  /\ browser_clients' = IF fan[c].kind = "status"
                        THEN AfterCleanup(browser_clients, fan[c])
                        ELSE browser_clients
  /\ esp32_clients' = IF fan[c].kind \in {"config", "segment"}
                      THEN AfterCleanup(esp32_clients, fan[c])
                      ELSE esp32_clients
  /\ pc' = [pc EXCEPT ![c] = fan[c].ret]
  /\ fan' = [fan EXCEPT ![c] = NoFan]
  /\ UNCHANGED <<fwd, broken, frame, msg, statuses, tiles>>
  /\ UNCHANGED <<seg, attr>>

\* ---- websocket_handler: one inbound message

\* What every received message starts from.
Fresh(c, kind) ==
  /\ msg' = [msg EXCEPT ![c] = kind]
  /\ frame' = [frame EXCEPT ![c] = NoFrame]
  /\ tiles' = [tiles EXCEPT ![c] = <<>>]
  /\ fwd' = [fwd EXCEPT ![c] = NoFwd]

\* A dispatcher with no except around json.loads.
RecvBadJson_Uncaught(c) ==
  /\ Ready(c)
  /\ pc[c] = "recv"
  /\ Fresh(c, "badjson")
  /\ pc' = [pc EXCEPT ![c] = "finally"]
  /\ statuses' = [statuses EXCEPT ![c] = <<>>]
  /\ UNCHANGED <<esp32_clients, browser_clients, broken, fan>>
  /\ UNCHANGED <<seg, attr>>

\* json.loads raises.
RecvBadJson(c) ==
  /\ Ready(c)
  /\ pc[c] = "recv"
  /\ Fresh(c, "badjson")
  /\ broadcast_status(c, browser_clients, <<>>, "Bad JSON", "error", "done")
  /\ UNCHANGED <<esp32_clients, browser_clients, broken>>
  /\ UNCHANGED <<seg, attr>>

\* The text parses to something that is no object: payload.get raises, and
\* nothing catches it inside the loop.
RecvNonObject(c) ==
  /\ Ready(c)
  /\ pc[c] = "recv"
  /\ Fresh(c, "nonobject")
  /\ pc' = [pc EXCEPT ![c] = "finally"]
  /\ statuses' = [statuses EXCEPT ![c] = <<>>]
  /\ UNCHANGED <<esp32_clients, browser_clients, broken, fan>>
  /\ UNCHANGED <<seg, attr>>

Roles == {"browser", "esp32", "unknown"}

\* The esp32 branch without its browser_clients.discard(ws).
hello_KeepController(c, role) ==
  IF role = "browser"
  THEN [devices |-> esp32_clients \ {c}, controllers |-> browser_clients \cup {c}]
  ELSE IF role = "esp32"
  THEN [devices |-> esp32_clients \cup {c}, controllers |-> browser_clients]
  ELSE [devices |-> esp32_clients, controllers |-> browser_clients]

\* The browser branch without its esp32_clients.discard(ws).
hello_KeepDevice(c, role) ==
  IF role = "browser"
  THEN [devices |-> esp32_clients, controllers |-> browser_clients \cup {c}]
  ELSE IF role = "esp32"
  THEN [devices |-> esp32_clients \cup {c}, controllers |-> browser_clients \ {c}]
  ELSE [devices |-> esp32_clients, controllers |-> browser_clients]

\* The registry after {"type": "hello", "role": role} from c.
hello(c, role) ==
  IF role = "browser"
  THEN [devices |-> esp32_clients \ {c}, controllers |-> browser_clients \cup {c}]
  ELSE IF role = "esp32"
  THEN [devices |-> esp32_clients \cup {c}, controllers |-> browser_clients \ {c}]
  ELSE [devices |-> esp32_clients, controllers |-> browser_clients]

RecvHello(c, role) ==
  /\ Ready(c)
  /\ pc[c] = "recv"
  /\ Fresh(c, role)
  /\ esp32_clients' = hello(c, role).devices
  /\ browser_clients' = hello(c, role).controllers
  /\ broadcast_status(c, hello(c, role).controllers, <<>>,
                      IF role = "browser" THEN "Browser registered"
                      ELSE IF role = "esp32" THEN "ESP32 registered"
                      ELSE "Unknown hello role", "info", "done")
  /\ UNCHANGED broken
  /\ UNCHANGED <<seg, attr>>

\* A text message that is neither a hello nor a render command.
RecvIgnored(c) ==
  /\ Ready(c)
  /\ pc[c] = "recv"
  /\ Fresh(c, "ignored")
  /\ statuses' = [statuses EXCEPT ![c] = <<>>]
  /\ pc' = [pc EXCEPT ![c] = "done"]
  /\ UNCHANGED <<esp32_clients, browser_clients, broken, fan>>
  /\ UNCHANGED <<seg, attr>>

\* A render command whose height, font_size_pt or y_offset int() rejects: the
\* conversions stand before the try.
RecvRenderBadOpts(c) ==
  /\ Ready(c)
  /\ pc[c] = "recv"
  /\ Fresh(c, "render_badopts")
  /\ pc' = [pc EXCEPT ![c] = "finally"]
  /\ statuses' = [statuses EXCEPT ![c] = <<>>]
  /\ UNCHANGED <<esp32_clients, browser_clients, broken, fan>>
  /\ UNCHANGED <<seg, attr>>

\* A render command; a font that is not installed is reported first.
RecvRender(c, fontOk) ==
  /\ Ready(c)
  /\ pc[c] = "recv"
  /\ Fresh(c, "render")
  /\ IF fontOk
     THEN /\ pc' = [pc EXCEPT ![c] = "try"]
          /\ statuses' = [statuses EXCEPT ![c] = <<>>]
          /\ fan' = fan
     ELSE broadcast_status(c, browser_clients, <<>>, "Font not found", "warn", "try")
  /\ UNCHANGED <<esp32_clients, browser_clients, broken>>
  /\ UNCHANGED <<seg, attr>>

\* try: await broadcast_status("Rendering text ..."); the status log starts
\* again with the render attempt.
TryRender(c) ==
  /\ Ready(c)
  /\ pc[c] = "try"
  /\ broadcast_status(c, browser_clients, <<>>, "Rendering text", "info",
                      "send_config")
  /\ UNCHANGED <<fwd, esp32_clients, browser_clients, broken, frame, msg, tiles>>
  /\ UNCHANGED <<seg, attr>>

\* send_text_segmented: await send_config(animate, bg_noise)
send_config(c) ==
  /\ Ready(c)
  /\ pc[c] = "send_config"
  /\ fan' = [fan EXCEPT ![c] = Fan("config", esp32_clients, "render")]
  /\ pc' = [pc EXCEPT ![c] = "fan"]
  /\ UNCHANGED <<fwd, esp32_clients, browser_clients, broken, frame, msg, statuses, tiles>>
  /\ UNCHANGED <<seg, attr>>

\* A pipeline that converts tile by tile, so that the codec can raise once a
\* tile is out.
RenderFails_AfterTile(c) ==
  /\ Ready(c)
  /\ pc[c] = "advance"
  /\ broadcast_status(c, browser_clients, statuses[c], "Render/send error", "error",
                      "done")
  /\ UNCHANGED <<fwd, esp32_clients, browser_clients, broken, frame, msg, tiles>>
  /\ UNCHANGED <<seg, attr>>

\* render_line_surface or surface_to_rgb565 raises: the except of the try.
RenderFails(c) ==
  /\ Ready(c)
  /\ pc[c] = "render"
  /\ broadcast_status(c, browser_clients, statuses[c], "Render/send error", "error",
                      "done")
  /\ UNCHANGED <<fwd, esp32_clients, browser_clients, broken, frame, msg, tiles>>
  /\ UNCHANGED <<seg, attr>>

\* h, total_w = rgb.shape; x = 0; sent = 0
RenderOk(c, w) ==
  /\ Ready(c)
  /\ pc[c] = "render"
  /\ frame' = [frame EXCEPT ![c] = [NoFrame EXCEPT !.path = "render", !.total_w = w]]
  /\ pc' = [pc EXCEPT ![c] = "tile_loop"]
  /\ UNCHANGED <<fwd, esp32_clients, browser_clients, broken, fan, msg, statuses, tiles>>
  /\ UNCHANGED <<seg, attr>>

\* ---- the tile loops

\* A loop whose tiles have no width.
SegWidth_Zero(total_w, x) == 0

\* Every tile MAX_SEGMENT_WIDTH wide, the last one too.
SegWidth_NoMin(total_w, x) == MAX_SEGMENT_WIDTH

\* seg_w = min(MAX_SEGMENT_WIDTH, total_w - x)
SegWidth(total_w, x) == Min(MAX_SEGMENT_WIDTH, total_w - x)

\* while x < total_w
MoreTiles(total_w, x) == x < total_w

\* A loop that sleeps after its first tile already.
Paced_FromFirst(sent, total_w, x) == sent >= 1 /\ SEGMENT_DELAY_MS > 0 /\ x < total_w

\* if sent >= 2 and SEGMENT_DELAY_S > 0 and x < total_w
Paced(sent, total_w, x) == sent >= 2 /\ SEGMENT_DELAY_MS > 0 /\ x < total_w

\* A forward to every registered connection, controllers too.
send_segment_Everyone(c) ==
  /\ Ready(c)
  /\ pc[c] = "tile_loop"
  /\ MoreTiles(frame[c].total_w, frame[c].x)
  /\ LET w == SegWidth(frame[c].total_w, frame[c].x)
     IN /\ frame' = [frame EXCEPT ![c].seg_w = w]
        /\ tiles' = [tiles EXCEPT ![c] = Append(@, [x |-> frame[c].x, w |-> w])]
        /\ fwd' = [fwd EXCEPT ![c] =
                     [Missed(@, Conns \ esp32_clients) EXCEPT
                        !.empty = esp32_clients = {}, !.pkts = 0,
                        !.st = Len(statuses[c])]]
  /\ fan' = [fan EXCEPT ![c] = Fan("segment", esp32_clients \cup browser_clients,
                                   "seg_done")]
  /\ pc' = [pc EXCEPT ![c] = "fan"]
  /\ UNCHANGED <<esp32_clients, browser_clients, broken, msg, statuses>>
  /\ UNCHANGED <<seg, attr>>

\* A forward that leaves out the connection the frame came from.
send_segment_NotSender(c) ==
  /\ Ready(c)
  /\ pc[c] = "tile_loop"
  /\ MoreTiles(frame[c].total_w, frame[c].x)
  /\ LET w == SegWidth(frame[c].total_w, frame[c].x)
     IN /\ frame' = [frame EXCEPT ![c].seg_w = w]
        /\ tiles' = [tiles EXCEPT ![c] = Append(@, [x |-> frame[c].x, w |-> w])]
        /\ fwd' = [fwd EXCEPT ![c] =
                     [Missed(@, Conns \ esp32_clients) EXCEPT
                        !.empty = esp32_clients = {}, !.pkts = 0,
                        !.st = Len(statuses[c])]]
  /\ fan' = [fan EXCEPT ![c] = Fan("segment", esp32_clients \ {c}, "seg_done")]
  /\ pc' = [pc EXCEPT ![c] = "fan"]
  /\ UNCHANGED <<esp32_clients, browser_clients, broken, msg, statuses>>
  /\ UNCHANGED <<seg, attr>>

\* await send_segment(total_w, x, rgb[:, x:x+seg_w]): the loop over
\* list(esp32_clients) starts.  The bytes of the packet are the matter of
\* FramePacket; here a tile is its offset and its width.
send_segment(c) ==
  /\ Ready(c)
  /\ pc[c] = "tile_loop"
  /\ MoreTiles(frame[c].total_w, frame[c].x)
  /\ LET w == SegWidth(frame[c].total_w, frame[c].x)
     IN /\ frame' = [frame EXCEPT ![c].seg_w = w]
        /\ tiles' = [tiles EXCEPT ![c] = Append(@, [x |-> frame[c].x, w |-> w])]
        /\ fwd' = [fwd EXCEPT ![c] =
                     [Missed(@, Conns \ esp32_clients) EXCEPT
                        !.empty = esp32_clients = {}, !.pkts = 0,
                        !.st = Len(statuses[c])]]
  /\ fan' = [fan EXCEPT ![c] = Fan("segment", esp32_clients, "seg_done")]
  /\ pc' = [pc EXCEPT ![c] = "fan"]
  /\ UNCHANGED <<esp32_clients, browser_clients, broken, msg, statuses>>
  /\ UNCHANGED <<seg, attr>>

\* A render loop that reports every tile at warn level.
SegDoneRender_Warn(c) ==
  /\ Ready(c)
  /\ pc[c] = "seg_done"
  /\ frame[c].path = "render"
  /\ frame' = [frame EXCEPT ![c].sent = @ + 1]
  /\ broadcast_status(c, browser_clients, statuses[c], "Sent segment", "warn", "advance")
  /\ UNCHANGED <<fwd, esp32_clients, browser_clients, broken, msg, tiles>>
  /\ UNCHANGED <<seg, attr>>

\* The render loop after send_segment: sent += 1, then the progress status.
SegDoneRender(c) ==
  /\ Ready(c)
  /\ pc[c] = "seg_done"
  /\ frame[c].path = "render"
  /\ frame' = [frame EXCEPT ![c].sent = @ + 1]
  /\ broadcast_status(c, browser_clients, statuses[c], "Sent segment", "info", "advance")
  /\ UNCHANGED <<fwd, esp32_clients, browser_clients, broken, msg, tiles>>
  /\ UNCHANGED <<seg, attr>>

\* The loop's tail: x += seg_w, then the pacing test.
Advance(c) ==
  /\ Ready(c)
  /\ pc[c] = "advance"
  /\ LET x == frame[c].x + frame[c].seg_w
         p == Paced(frame[c].sent, frame[c].total_w, x)
     IN /\ frame' = [frame EXCEPT ![c].x = x,
                                  ![c].delays = IF p THEN @ + 1 ELSE @]
        /\ pc' = [pc EXCEPT ![c] = IF p THEN "sleep" ELSE "tile_loop"]
  /\ UNCHANGED <<fwd, esp32_clients, browser_clients, broken, fan, msg, statuses, tiles>>
  /\ UNCHANGED <<seg, attr>>

\* The binary loop after send_segment: x += seg_w; sent += 1; the pacing test.
SegDoneBinary(c) ==
  /\ Ready(c)
  /\ pc[c] = "seg_done"
  /\ frame[c].path = "binary"
  /\ LET x == frame[c].x + frame[c].seg_w
         sent == frame[c].sent + 1
         p == Paced(sent, frame[c].total_w, x)
     IN /\ frame' = [frame EXCEPT ![c].x = x, ![c].sent = sent,
                                  ![c].delays = IF p THEN @ + 1 ELSE @]
        /\ pc' = [pc EXCEPT ![c] = IF p THEN "sleep" ELSE "tile_loop"]
  /\ UNCHANGED <<fwd, esp32_clients, browser_clients, broken, fan, msg, statuses, tiles>>
  /\ UNCHANGED <<seg, attr>>

\* await asyncio.sleep(SEGMENT_DELAY_S) returns.
Wake(c) ==
  /\ Ready(c)
  /\ pc[c] = "sleep"
  /\ pc' = [pc EXCEPT ![c] = "tile_loop"]
  /\ UNCHANGED <<fwd, esp32_clients, browser_clients, broken, fan, frame, msg, statuses, tiles>>
  /\ UNCHANGED <<seg, attr>>

\* The loop ends: "All segments sent" or "Image forwarded in n segments".
FrameDone(c) ==
  /\ Ready(c)
  /\ pc[c] = "tile_loop"
  /\ ~MoreTiles(frame[c].total_w, frame[c].x)
  /\ broadcast_status(c, browser_clients, statuses[c],
                      IF frame[c].path = "render" THEN "All segments sent"
                      ELSE "Image forwarded", "info", "done")
  /\ UNCHANGED <<fwd, esp32_clients, browser_clients, broken, frame, msg, tiles>>
  /\ UNCHANGED <<seg, attr>>

\* ---- binary messages

\* len(data) < 4
RecvBinaryTooSmall(c) ==
  /\ Ready(c)
  /\ pc[c] = "recv"
  /\ Fresh(c, "binary_small")
  /\ broadcast_status(c, browser_clients, <<>>, "Binary too small", "error", "done")
  /\ UNCHANGED <<esp32_clients, browser_clients, broken>>
  /\ UNCHANGED <<seg, attr>>

\* A passthrough that forwards what it got instead of rejecting it.
RecvBinaryShort_Forward(c) ==
  /\ Ready(c)
  /\ pc[c] = "recv"
  /\ Fresh(c, "binary_short")
  /\ statuses' = [statuses EXCEPT ![c] = <<>>]
  /\ fan' = [fan EXCEPT ![c] = Fan("segment", esp32_clients, "done")]
  /\ pc' = [pc EXCEPT ![c] = "fan"]
  /\ UNCHANGED <<esp32_clients, browser_clients, broken>>
  /\ UNCHANGED <<seg, attr>>

\* The payload is shorter than w * h * 2: frombuffer or reshape raises.
RecvBinaryShort(c) ==
  /\ Ready(c)
  /\ pc[c] = "recv"
  /\ Fresh(c, "binary_short")
  /\ broadcast_status(c, browser_clients, <<>>, "Bad image buffer", "error", "done")
  /\ UNCHANGED <<esp32_clients, browser_clients, broken>>
  /\ UNCHANGED <<seg, attr>>

\* A dispatcher that takes the connection's next frame while the loop of the
\* earlier one sleeps.
RecvBinary_Concurrent(c, w) ==
  /\ Ready(c)
  /\ pc[c] \in {"recv", "sleep"}
  /\ msg' = [msg EXCEPT ![c] = "binary"]
  /\ frame' = [frame EXCEPT ![c] = [NoFrame EXCEPT !.path = "binary", !.total_w = w]]
  /\ tiles' = [tiles EXCEPT ![c] = <<>>]
  /\ fwd' = [fwd EXCEPT ![c] = NoFwd]
  /\ statuses' = [statuses EXCEPT ![c] = <<>>]
  /\ pc' = [pc EXCEPT ![c] = "tile_loop"]
  /\ UNCHANGED <<esp32_clients, browser_clients, broken, fan>>
  /\ UNCHANGED <<seg, attr>>

\* A frame of width w: x = 0; sent = 0, and the loop.
RecvBinary(c, w) ==
  /\ Ready(c)
  /\ pc[c] = "recv"
  /\ msg' = [msg EXCEPT ![c] = "binary"]
  /\ frame' = [frame EXCEPT ![c] = [NoFrame EXCEPT !.path = "binary", !.total_w = w]]
  /\ tiles' = [tiles EXCEPT ![c] = <<>>]
  /\ fwd' = [fwd EXCEPT ![c] = NoFwd]
  /\ statuses' = [statuses EXCEPT ![c] = <<>>]
  /\ pc' = [pc EXCEPT ![c] = "tile_loop"]
  /\ UNCHANGED <<esp32_clients, browser_clients, broken, fan>>
  /\ UNCHANGED <<seg, attr>>

\* msg.type == WSMsgType.ERROR
RecvError(c) ==
  /\ Ready(c)
  /\ pc[c] = "recv"
  /\ Fresh(c, "ws_error")
  /\ broadcast_status(c, browser_clients, <<>>, "WebSocket error", "error", "done")
  /\ UNCHANGED <<esp32_clients, browser_clients, broken>>
  /\ UNCHANGED <<seg, attr>>

\* ---- the end of the connection

\* The peer closes: async for ends and the socket is closed.
RecvClose(c) ==
  /\ Ready(c)
  /\ pc[c] = "recv"
  /\ Fresh(c, "close")
  /\ statuses' = [statuses EXCEPT ![c] = <<>>]
  /\ broken' = [broken EXCEPT ![c] = TRUE]
  /\ pc' = [pc EXCEPT ![c] = "finally"]
  /\ UNCHANGED <<esp32_clients, browser_clients, fan>>
  /\ UNCHANGED <<seg, attr>>

\* A finally that announces the disconnect before it unregisters.
Finally_BroadcastFirst(c) ==
  /\ Ready(c)
  /\ pc[c] = "finally"
  /\ browser_clients' = browser_clients \ {c}
  /\ esp32_clients' = esp32_clients \ {c}
  /\ broadcast_status(c, browser_clients, statuses[c], "disconnected", "info",
                      "exit")
  /\ UNCHANGED <<fwd, broken, frame, msg, tiles>>
  /\ UNCHANGED <<seg, attr>>

\* finally: both discards, then the "disconnected" status.
Finally(c) ==
  /\ Ready(c)
  /\ pc[c] = "finally"
  /\ browser_clients' = browser_clients \ {c}
  /\ esp32_clients' = esp32_clients \ {c}
  /\ broadcast_status(c, browser_clients \ {c}, statuses[c], "disconnected", "info",
                      "exit")
  /\ UNCHANGED <<fwd, broken, frame, msg, tiles>>
  /\ UNCHANGED <<seg, attr>>

\* The message is handled: back to async for.
Loop(c) ==
  /\ Ready(c)
  /\ pc[c] = "done"
  /\ pc' = [pc EXCEPT ![c] = "recv"]
  /\ msg' = [msg EXCEPT ![c] = "none"]
  /\ frame' = [frame EXCEPT ![c] = NoFrame]
  /\ statuses' = [statuses EXCEPT ![c] = <<>>]
  /\ tiles' = [tiles EXCEPT ![c] = <<>>]
  /\ fwd' = [fwd EXCEPT ![c] = NoFwd]
  /\ UNCHANGED <<esp32_clients, browser_clients, broken, fan>>
  /\ UNCHANGED <<seg, attr>>

\* return ws: the handler ends and the socket is closed for good.
Exit(c) ==
  /\ Ready(c)
  /\ pc[c] = "exit"
  /\ pc' = [pc EXCEPT ![c] = "closed"]
  /\ broken' = [broken EXCEPT ![c] = TRUE]
  /\ msg' = [msg EXCEPT ![c] = "none"]
  /\ frame' = [frame EXCEPT ![c] = NoFrame]
  /\ statuses' = [statuses EXCEPT ![c] = <<>>]
  /\ tiles' = [tiles EXCEPT ![c] = <<>>]
  /\ fwd' = [fwd EXCEPT ![c] = NoFwd]
  /\ UNCHANGED <<esp32_clients, browser_clients, fan>>
  /\ UNCHANGED <<seg, attr>>

\* The peer of c goes away or its transport starts closing: from now on every
\* send to c raises.
Break(c) ==
  /\ \A d \in Conns : ~Urgent(d)
  /\ pc[c] \notin {"new", "closed"}
  /\ ~broken[c]
  /\ broken' = [broken EXCEPT ![c] = TRUE]
  /\ UNCHANGED <<fwd, esp32_clients, browser_clients, pc, fan, frame, msg, statuses, tiles>>
  /\ UNCHANGED <<seg, attr>>

Next ==
  \E c \in Conns :
    \/ Connect(c)
    \/ Register(c)
    \/ \E t \in Conns : FanSend(c, t)
    \/ FanReturn(c)
    \/ RecvBadJson(c)
    \/ RecvNonObject(c)
    \/ \E role \in Roles : RecvHello(c, role)
    \/ RecvIgnored(c)
    \/ RecvRenderBadOpts(c)
    \/ \E fontOk \in BOOLEAN : RecvRender(c, fontOk)
    \/ TryRender(c)
    \/ send_config(c)
    \/ RenderFails(c)
    \/ \E w \in RenderWidths : RenderOk(c, w)
    \/ send_segment(c)
    \/ SegDoneRender(c)
    \/ Advance(c)
    \/ SegDoneBinary(c)
    \/ Wake(c)
    \/ FrameDone(c)
    \/ RecvBinaryTooSmall(c)
    \/ RecvBinaryShort(c)
    \/ \E w \in Widths : RecvBinary(c, w)
    \/ RecvError(c)
    \/ RecvClose(c)
    \/ Finally(c)
    \/ Loop(c)
    \/ Exit(c)
    \/ Break(c)

Spec == Init /\ [][Next]_vars

\* ---- scheduling

\* The connections and their pipelines without the messages that are turned
\* away at the door: frames of three tiles, handshakes, disconnects, and
\* transports that start to fail.
LiveNext ==
  \E c \in Conns :
    \/ Connect(c)
    \/ Register(c)
    \/ \E t \in Conns : FanSend(c, t)
    \/ FanReturn(c)
    \/ RecvHello(c, "browser")
    \/ RecvRender(c, TRUE)
    \/ TryRender(c)
    \/ send_config(c)
    \/ RenderFails(c)
    \/ \E w \in RenderWidths : RenderOk(c, w)
    \/ \E w \in RenderWidths : RecvBinary(c, w)
    \/ send_segment(c)
    \/ SegDoneRender(c)
    \/ Advance(c)
    \/ SegDoneBinary(c)
    \/ Wake(c)
    \/ FrameDone(c)
    \/ RecvClose(c)
    \/ Finally(c)
    \/ Loop(c)
    \/ Exit(c)
    \/ Break(c)

\* The steps of the handler of c that wait for nothing outside the program,
\* and the completions of its sends to the recipients in S.  The arrival of a
\* connection or of a message is no such step.
Run(c, S) ==
  \/ Register(c)
  \/ \E t \in S : FanSend(c, t)
  \/ FanReturn(c)
  \/ TryRender(c)
  \/ send_config(c)
  \/ RenderFails(c)
  \/ \E w \in RenderWidths : RenderOk(c, w)
  \/ send_segment(c)
  \/ SegDoneRender(c)
  \/ Advance(c)
  \/ SegDoneBinary(c)
  \/ Wake(c)
  \/ FrameDone(c)
  \/ Finally(c)
  \/ Loop(c)
  \/ Exit(c)

\* The event loop runs every callback that is ready, first come first served:
\* a handler that can run again and again does run.  No send hangs: each one
\* completes, delivered or raised.
FairSpec ==
  /\ Init /\ [][LiveNext]_vars
  /\ \A c \in Conns : SF_vars(Run(c, Conns))

\* The connection whose peer has stopped reading.
Hung == 1

\* As FairSpec, but a send to Hung is free never to complete: no timeout
\* stands on ws.send_str or ws.send_bytes.
HangSpec ==
  /\ Init /\ [][LiveNext]_vars
  /\ \A c \in Conns : SF_vars(Run(c, Conns \ {Hung}))

\* ---- send_segment's packet

\* v & 0xFF with a non-negative v that fits the header's fields or not.
Lo(v) == v % 256

\* A header that writes the low byte twice.
Hi_NoShift(v) == v % 256

\* (v >> 8) & 0xFF
Hi(v) == (v \div 256) % 256

\* header[0..9]: ord('S'), ord('G'), then total_w, seg_x, seg_w and h, each
\* low byte first.
header(total_w, seg_x, seg_w, h) ==
  <<83, 71, Lo(total_w), Hi(total_w), Lo(seg_x), Hi(seg_x),
    Lo(seg_w), Hi(seg_w), Lo(h), Hi(h)>>

\* len(pkt): the header and seg.tobytes(), two bytes for each of the h * seg_w
\* uint16 pixels.
PktLen(seg_w, h) == Len(header(0, 0, seg_w, h)) + 2 * seg_w * h

\* Values of a 16-bit field: the ends of the range, both sides of the byte
\* boundary, and a width and an offset of the tile loop.
Words == {0, 1, 255, 256, 384, 65535}

\* The array seg exists: it has no more than MaxPixels pixels.
Fits(seg_w, h) == IF seg_w = 0 THEN TRUE ELSE h <= MaxPixels \div seg_w

\* send_segment is called with any tile.
PacketInit ==
  /\ Idle
  /\ attr = NoAttr
  /\ \E t \in Words, x \in Words, w \in Words, h \in Words :
       /\ Fits(w, h)
       /\ seg = [NoSeg EXCEPT !.total_w = t, !.seg_x = x, !.seg_w = w, !.h = h]

\* pkt = bytes(header) + seg.tobytes(order='C')
FramePacket ==
  /\ seg.pkt = <<>>
  /\ seg' = [seg EXCEPT !.pkt = header(seg.total_w, seg.seg_x, seg.seg_w, seg.h),
                        !.len = PktLen(seg.seg_w, seg.h)]
  /\ UNCHANGED <<esp32_clients, browser_clients, pc, broken, fan, frame, msg, statuses,
                 tiles, fwd, attr>>

PacketSpec == PacketInit /\ [][FramePacket]_vars

\* ---- build_attrlist's runs

\* detect_script(ch), by code point.
detect_script(cp) ==
  IF 6016 <= cp /\ cp <= 6143 THEN "khmer"
  ELSE IF (127744 <= cp /\ cp <= 129791) \/ (9728 <= cp /\ cp <= 9983) THEN "emoji"
  ELSE IF (0 <= cp /\ cp <= 591) \/ (7680 <= cp /\ cp <= 7935) THEN "latin"
  ELSE "latin"

\* len(ch.encode("utf-8")) of a code point that is no surrogate.
Utf8Len(cp) ==
  IF cp < 128 THEN 1 ELSE IF cp < 2048 THEN 2 ELSE IF cp < 65536 THEN 3 ELSE 4

\* Offsets that count characters, not bytes.
byte_offsets_CharIndex(text) == [k \in 1..(Len(text) + 1) |-> k - 1]

\* byte_offsets = [0]; for ch in text: byte_offsets.append(byte_offsets[-1] + ...)
\* The list's entry k is kept at index k + 1.
RECURSIVE byte_offsets(_)
byte_offsets(text) ==
  IF text = <<>> THEN <<0>>
  ELSE LET before == byte_offsets(SubSeq(text, 1, Len(text) - 1))
       IN Append(before, before[Len(before)] + Utf8Len(text[Len(text)]))

\* for i, ch in enumerate(text): ... from character i on, and the run that is
\* appended after the loop.  prev = "none" is Python's None.
RECURSIVE Scan(_, _, _, _, _)
Scan(text, i, runs, prev, start) ==
  IF i >= Len(text)
  THEN IF prev # "none"
       THEN Append(runs, [a |-> start, b |-> Len(text), script |-> prev])
       ELSE runs
  ELSE LET s == detect_script(text[i + 1])
       IN IF prev = "none" THEN Scan(text, i + 1, runs, s, i)
          ELSE IF s # prev
               THEN Scan(text, i + 1,
                         Append(runs, [a |-> start, b |-> i, script |-> prev]), s, i)
               ELSE Scan(text, i + 1, runs, prev, start)

\* The attributes inserted for the runs: start_index and end_index are byte
\* offsets, the script decides the font family.
build_attrlist(text) ==
  LET runs == Scan(text, 0, <<>>, "none", 0)
      off == byte_offsets(text)
  IN [k \in 1..Len(runs) |->
        [start_index |-> off[runs[k].a + 1], end_index |-> off[runs[k].b + 1],
         script |-> runs[k].script]]

\* A, e acute, Khmer ka, the sun, a cyclone, and a CJK ideograph: one to four
\* bytes each and every branch of detect_script.
Chars == {65, 233, 6016, 9728, 127744, 20013}

RECURSIVE Texts(_)
Texts(n) ==
  IF n = 0 THEN {<<>>}
  ELSE Texts(n - 1) \cup {Append(t, ch) : t \in Texts(n - 1), ch \in Chars}

\* build_attrlist is called with any text.
AttrInit ==
  /\ Idle
  /\ seg = NoSeg
  /\ \E t \in Texts(MaxLen) : attr = [NoAttr EXCEPT !.text = t]

BuildAttrs ==
  /\ ~attr.built
  /\ attr' = [attr EXCEPT !.runs = build_attrlist(attr.text), !.built = TRUE]
  /\ UNCHANGED <<esp32_clients, browser_clients, pc, broken, fan, frame, msg, statuses,
                 tiles, fwd, seg>>

AttrSpec == AttrInit /\ [][BuildAttrs]_vars

\* ---- one connection alone, frames of every width up to MaxWidth

TileNext ==
  \/ Connect(1)
  \/ Register(1)
  \/ FanSend(1, 1)
  \/ FanReturn(1)
  \/ RecvRender(1, TRUE)
  \/ TryRender(1)
  \/ send_config(1)
  \/ \E w \in 1..MaxWidth : RenderOk(1, w)
  \/ \E w \in 0..MaxWidth : RecvBinary(1, w)
  \/ send_segment(1)
  \/ SegDoneRender(1)
  \/ Advance(1)
  \/ SegDoneBinary(1)
  \/ Wake(1)
  \/ FrameDone(1)
  \/ Loop(1)

TileSpec == Init /\ [][TileNext]_vars

\* ---- the registry

Last(q) == q[Len(q)]

\* C1: in every reachable state no connection is in both esp32_clients (the
\* Devices) and browser_clients (the Controllers).
C1_Disjoint == esp32_clients \cap browser_clients = {}

\* A handshake has moved one connection to the Controllers while the other is
\* still a Device.
C1_Witness ==
  \E c, d \in Conns :
    /\ msg[c] = "browser" /\ pc[c] = "done"
    /\ c \in browser_clients /\ d \in esp32_clients

\* C2: a live connection (no send to it has raised) that has sent the
\* controller handshake is in the Controllers and not in the Devices; one that
\* has sent the device handshake is in the Devices and not in the Controllers;
\* and for a connection already in its target set alone, the same handshake
\* leaves both sets as they are.
C2_SetRole ==
  \A c \in Conns :
    /\ msg[c] = "browser" /\ ~broken[c]
         => c \in browser_clients /\ c \notin esp32_clients
    /\ msg[c] = "esp32" /\ ~broken[c]
         => c \in esp32_clients /\ c \notin browser_clients
    /\ c \in browser_clients /\ c \notin esp32_clients
         => /\ hello(c, "browser").controllers = browser_clients
            /\ hello(c, "browser").devices = esp32_clients
    /\ c \in esp32_clients /\ c \notin browser_clients
         => /\ hello(c, "esp32").devices = esp32_clients
            /\ hello(c, "esp32").controllers = browser_clients

\* A connection has sent the device handshake and is in the Devices alone,
\* beside a registered controller.
C2_Witness ==
  \E c \in Conns :
    /\ msg[c] = "esp32" /\ pc[c] = "done" /\ ~broken[c]
    /\ c \in esp32_clients
    /\ \E d \in Conns \ {c} : d \in browser_clients

\* ---- broadcast_status

\* The status events logged since the latest send_segment call began.
SinceForward(c) == SubSeq(statuses[c], fwd[c].st + 1, Len(statuses[c]))

Warns(q) == Cardinality({i \in 1..Len(q) : q[i].level = "warn"})

C4_Delivery ==
  \A c \in Conns :
    fan[c].kind = "status" =>
      /\ fan[c].dead \subseteq fan[c].snap
      /\ \A t \in Conns :
           fan[c].got[t] = IF t \in fan[c].snap \ (fan[c].pend \cup fan[c].dead)
                           THEN 1 ELSE 0

\* The step that returns from a broadcast_status call.
C4_Return ==
  \A c \in Conns :
    fan[c].kind = "status" /\ fan[c].pend = {} /\ pc'[c] # "fan" =>
      /\ browser_clients' = browser_clients \ fan[c].dead
      /\ \A t \in fan[c].snap \ fan[c].dead : fan[c].got[t] = 1
      /\ \A t \in fan[c].dead : t \notin browser_clients'
      /\ \A t \in fan[c].snap \ fan[c].dead :
           t \in browser_clients' <=> t \in browser_clients

\* C4: in one broadcast_status call every recipient of the snapshot whose send
\* did not raise gets the event exactly once and the others not at all; a
\* raised send does not end the loop; and the return removes from
\* browser_clients the recipients whose send raised and nobody else, so that
\* those whose send succeeded are registered after it as they were before it.
C4_Broadcast == []C4_Delivery /\ [][C4_Return]_vars

\* A broadcast over two controllers is about to return: one send raised, the
\* other delivered, and both are still registered.
C4_Witness ==
  \E c \in Conns :
    /\ pc[c] = "fan" /\ fan[c].kind = "status" /\ fan[c].pend = {}
    /\ fan[c].snap = Conns
    /\ Cardinality(fan[c].dead) = 1
    /\ Conns \subseteq browser_clients

\* ---- the tile loops

\* The frame's loop has ended.
FrameOver(c) == pc[c] = "done" /\ frame[c].path # "none"

\* C5: the tiles of a frame of width W lie at 0, M, 2M, ... with
\* M = MAX_SEGMENT_WIDTH, each min(M, W - x) wide and inside the frame, each
\* starting where the one before ends; when the loop is over the last one ends
\* at W, an empty frame has none, and a frame 500 wide has 192 at 0, 192 at 192
\* and 116 at 384.
C5_Tiling ==
  \A c \in Conns :
    LET T == tiles[c]
        W == frame[c].total_w
    IN /\ \A i \in 1..Len(T) :
            /\ T[i].x = (i - 1) * MAX_SEGMENT_WIDTH
            /\ T[i].w = Min(MAX_SEGMENT_WIDTH, W - T[i].x)
            /\ T[i].w > 0
            /\ T[i].x + T[i].w <= W
            /\ i < Len(T) => T[i + 1].x = T[i].x + T[i].w
       /\ FrameOver(c) =>
            /\ W = 0 <=> T = <<>>
            /\ W > 0 => Last(T).x + Last(T).w = W
            /\ W = 500 => T = <<[x |-> 0, w |-> 192], [x |-> 192, w |-> 192],
                                [x |-> 384, w |-> 116]>>

\* A rendered frame 500 wide has been forwarded in three tiles.
C5_Witness ==
  /\ FrameOver(1) /\ frame[1].path = "render"
  /\ frame[1].total_w = 500 /\ Len(tiles[1]) = 3

\* ---- websocket_handler's failure paths

\* The handler has left its message loop.
Leaving(c) == pc[c] \in {"finally", "exit", "closed"}

\* The handler of c took the step.
StepOf(c) == pc'[c] # pc[c] \/ fan'[c] # fan[c]

\* C6: a render request whose latest status is the error report has had no
\* send_segment call, so no tile packet of its frame went to any device.
C6_NoPartialFrame ==
  \A c \in Conns :
    msg[c] = "render" /\ statuses[c] # <<>> /\ Last(statuses[c]).level = "error"
      => tiles[c] = <<>> /\ fwd[c] = NoFwd /\ fan[c].kind # "segment"

\* A render has failed and been reported while a device was registered.
C6_Witness ==
  \E c \in Conns :
    /\ msg[c] = "render" /\ pc[c] = "done"
    /\ Last(statuses[c]) = Status("error", "Render/send error")
    /\ esp32_clients # {}

\* C7 as stated: no failure in handling a render command ends the connection:
\* the handler stays in its message loop, and a live connection stays
\* registered.
C7_RenderNeverFatal ==
  \A c \in Conns :
    msg[c] \in {"render", "render_badopts"} =>
      /\ ~Leaving(c)
      /\ ~broken[c] => c \in esp32_clients \cup browser_clients

\* C8 as stated: unparseable text is reported by one status at level info.
C8_BadJsonInfo ==
  \A c \in Conns :
    msg[c] = "badjson" => statuses[c] = <<Status("info", "Bad JSON")>>

\* While unparseable text is handled.
C8_BadJsonState ==
  \A c \in Conns :
    msg[c] = "badjson" =>
      /\ statuses[c] = <<Status("error", "Bad JSON")>>
      /\ pc[c] \in {"fan", "done"}
      /\ fan[c].kind \in {"status", "none"}
      /\ tiles[c] = <<>> /\ fwd[c] = NoFwd

\* The steps that receive and handle unparseable text.
C8_BadJsonStep ==
  \A c \in Conns :
    /\ msg'[c] = "badjson" /\ msg[c] # "badjson"
         => UNCHANGED <<esp32_clients, browser_clients>>
    /\ msg[c] = "badjson" /\ StepOf(c)
         => /\ esp32_clients' = esp32_clients
            /\ browser_clients' = IF pc[c] = "fan" /\ pc'[c] = "done"
                                  THEN browser_clients \ fan[c].dead
                                  ELSE browser_clients
            /\ pc'[c] \in {"fan", "done", "recv"}

\* C8, amended: unparseable text is reported by one status at level error; the
\* handler forwards nothing to devices, stays in its message loop, and its
\* steps change no registry set but for the return of that broadcast, which
\* discards the controllers whose send raised.
C8_BadJson == []C8_BadJsonState /\ [][C8_BadJsonStep]_vars

\* Unparseable text from a registered controller has been reported to it.
C8_Witness ==
  \E c \in Conns :
    /\ msg[c] = "badjson" /\ pc[c] = "done"
    /\ c \in browser_clients /\ ~broken[c]

\* C9: a binary message shorter than its prefix or than the prefix declares
\* is reported by one error-level status; no send_segment call is made, the
\* handler stays in its message loop, and a live connection stays registered.
C9_ShortBinary ==
  \A c \in Conns :
    msg[c] \in {"binary_small", "binary_short"} =>
      /\ statuses[c] = <<Status("error", IF msg[c] = "binary_small"
                                         THEN "Binary too small"
                                         ELSE "Bad image buffer")>>
      /\ pc[c] \in {"fan", "done"}
      /\ fan[c].kind \in {"status", "none"}
      /\ tiles[c] = <<>> /\ fwd[c] = NoFwd
      /\ ~broken[c] => c \in esp32_clients \cup browser_clients

\* A controller's short frame has been rejected with a device registered.
C9_Witness ==
  \E c \in Conns :
    /\ msg[c] = "binary_short" /\ pc[c] = "done"
    /\ c \in browser_clients /\ ~broken[c]
    /\ esp32_clients # {}

\* ---- the accept

\* C10 as stated: while the "connected" status is being sent, the new
\* connection is already in esp32_clients.
C10_RegisteredFirst ==
  \A c \in Conns :
    msg[c] = "connect" /\ pc[c] = "fan" /\ fan[c].pend # {}
      => c \in esp32_clients

\* C10, amended: while the "connected" status is being sent the new connection
\* is in neither set; it is added to esp32_clients when that broadcast has
\* returned, and from then until its first message a live connection is in
\* esp32_clients.
C10_RegisteredAfter ==
  \A c \in Conns :
    /\ msg[c] = "connect" /\ pc[c] \in {"fan", "register"}
         => c \notin esp32_clients /\ c \notin browser_clients
    /\ msg[c] = "connect" /\ pc[c] = "recv" /\ ~broken[c]
         => c \in esp32_clients /\ c \notin browser_clients

\* The "connected" status of one connection is still on its way to a
\* controller while that controller's frame is forwarded past the newcomer.
C10_Witness ==
  \E c, d \in Conns :
    /\ msg[c] = "connect" /\ pc[c] = "fan" /\ fan[c].pend # {}
    /\ fan[d].kind = "segment" /\ c \notin fan[d].snap

\* ---- the disconnect

\* How many "disconnected" events the handler of c has broadcast.
Disconnected(c) ==
  Cardinality({i \in 1..Len(statuses[c]) : statuses[c][i].message = "disconnected"})

\* The handler of c is in or past the broadcast of its finally.
Announcing(c) == (pc[c] = "fan" /\ fan[c].ret = "exit") \/ pc[c] = "exit"

\* C11 in a state: while and after the "disconnected" status of c goes out, c
\* is in neither set, c is no recipient of it, and it is the only one; before
\* the finally there is none.
C11_State ==
  \A c \in Conns :
    /\ Announcing(c) =>
         /\ c \notin esp32_clients \cup browser_clients
         /\ c \notin fan[c].snap /\ fan[c].got[c] = 0
         /\ Disconnected(c) = 1
    /\ ~Announcing(c) => Disconnected(c) = 0

\* C11 in a step: every way out of the message loop leads through the finally,
\* and a handler that has returned never runs again.
C11_Step ==
  \A c \in Conns :
    /\ pc[c] = "closed" => pc'[c] = "closed"
    /\ pc'[c] = "closed" /\ pc[c] # "closed" => pc[c] = "exit"
    /\ Announcing(c)' /\ ~Announcing(c) => pc[c] = "finally"

\* C11: on every disconnect the connection is discarded from both sets
\* before the "disconnected" status is broadcast, so it is never a recipient
\* of that status, and the status is broadcast once per connection.
C11_Unregister == []C11_State /\ [][C11_Step]_vars

\* A controller's "disconnected" status is on its way to another controller.
C11_Witness ==
  \E c, d \in Conns :
    /\ c # d /\ Announcing(c) /\ pc[c] = "fan" /\ fan[c].snap = {d}
    /\ fan[c].got[d] = 1 /\ msg[c] = "close"

\* ---- one message at a time

\* The handler of c is inside a frame's tile loop with tiles out and more to
\* come.
MidFrame(c) ==
  /\ pc[c] \in {"fan", "seg_done", "advance", "sleep", "tile_loop"}
  /\ tiles[c] # <<>>
  /\ frame[c].x + frame[c].seg_w < frame[c].total_w

\* Between two messages nothing of the earlier one is in progress, and a
\* frame whose handling is done has had its last tile forwarded.
C12_State ==
  \A c \in Conns :
    /\ pc[c] = "recv" => fan[c] = NoFan /\ frame[c] = NoFrame /\ tiles[c] = <<>>
    /\ pc[c] = "done" /\ tiles[c] # <<>>
         => Last(tiles[c]).x + Last(tiles[c]).w = frame[c].total_w

\* A handler takes a message only at the head of its loop, comes back there
\* only when the handling is done, and in between the tiles it forwards are
\* the next tiles of the one frame in progress.
C12_Step ==
  \A c \in Conns :
    /\ msg'[c] \notin {msg[c], "none", "connect"} => pc[c] = "recv"
    /\ pc'[c] = "recv" /\ pc[c] # "recv" => pc[c] \in {"done", "register"}
    /\ tiles'[c] # tiles[c] =>
         \/ /\ pc[c] = "tile_loop"
            /\ tiles'[c] = Append(tiles[c], [x |-> frame[c].x, w |-> frame'[c].seg_w])
            /\ frame'[c].total_w = frame[c].total_w
         \/ pc[c] = "done" /\ tiles'[c] = <<>>

\* C12: a connection's messages are handled one at a time: the next is begun
\* only when the handling of the earlier one, every tile forward and pacing
\* delay included, is over, so no tile of a later frame of the connection goes
\* out before the last tile of its earlier frame.
C12_OneAtATime == []C12_State /\ [][C12_Step]_vars

\* The frames of two connections are both part-way through their tiles.
C12_Witness ==
  \E c, d \in Conns : c # d /\ MidFrame(c) /\ MidFrame(d)

\* ---- a hung recipient

\* The handler of c has a frame's pipeline in hand.
InPipeline(c) == msg[c] \in {"render", "binary"} /\ pc[c] # "done"

\* C13 as stated: with a send to one device free to hang, a tile that goes
\* to that device and to another still reaches the other, and the pipeline
\* that forwards it still comes to its end; all this as long as no transport
\* of the two starts to fail, which would turn the hang into a raise.
C13_HangIsolated ==
  \A c \in Conns : \A t \in Conns \ {Hung} :
    LET Forward == /\ fan[c].kind = "segment" /\ {Hung, t} \subseteq fan[c].snap
                   /\ InPipeline(c)
        Fails == broken[Hung] \/ broken[t]
    IN /\ Forward ~> (fan[c].got[t] = 1 \/ Fails)
       /\ Forward ~> (pc[c] = "done" \/ Fails)

\* ---- the packet header

\* A little-endian uint16 read from bytes i and i+1 of a packet, counted from 0.
LE16(p, i) == p[i + 1] + 256 * p[i + 2]

\* C14: the packet of a tile whose four fields fit 16 bits starts with 'S',
\* 'G'; its bytes 2-3, 4-5, 6-7 and 8-9 read as little-endian uint16 give back
\* total_width, x_offset, tile_width and height; and it is
\* 10 + 2 * tile_width * height bytes long.
C14_HeaderRoundTrip ==
  seg.pkt # <<>> =>
    /\ Len(seg.pkt) = 10
    /\ seg.pkt[1] = 83 /\ seg.pkt[2] = 71
    /\ \A i \in 1..10 : seg.pkt[i] \in 0..255
    /\ LE16(seg.pkt, 2) = seg.total_w
    /\ LE16(seg.pkt, 4) = seg.seg_x
    /\ LE16(seg.pkt, 6) = seg.seg_w
    /\ LE16(seg.pkt, 8) = seg.h
    /\ seg.len = 10 + 2 * seg.seg_w * seg.h

\* The packet of a tile whose four fields all need their high byte, and
\* differ, has been framed.
C14_Witness ==
  /\ seg.pkt # <<>>
  /\ seg.total_w = 65535 /\ seg.seg_x = 384 /\ seg.seg_w = 256 /\ seg.h = 255

\* ---- the script runs

\* The length of the text's UTF-8 encoding.
RECURSIVE Utf8Bytes(_)
Utf8Bytes(text) ==
  IF text = <<>> THEN 0 ELSE Utf8Len(Head(text)) + Utf8Bytes(Tail(text))

\* C15: the runs of a text lie in the order of their start offsets, the first
\* at byte 0, each starting where the one before ends, the last ending at the
\* text's UTF-8 length; none is empty, neighbours differ in script, every
\* character lies inside one run of its own script, and the empty text has
\* no run.
C15_RunsTile ==
  attr.built =>
    LET R == attr.runs
        T == attr.text
    IN /\ T = <<>> <=> R = <<>>
       /\ R # <<>> => R[1].start_index = 0 /\ R[Len(R)].end_index = Utf8Bytes(T)
       /\ \A k \in 1..Len(R) :
            /\ R[k].start_index < R[k].end_index
            /\ k < Len(R) => /\ R[k + 1].start_index = R[k].end_index
                             /\ R[k + 1].script # R[k].script
       /\ \A i \in 1..Len(T) :
            LET from == Utf8Bytes(SubSeq(T, 1, i - 1))
                to == from + Utf8Len(T[i])
            IN \E k \in 1..Len(R) :
                 /\ R[k].start_index <= from /\ to <= R[k].end_index
                 /\ R[k].script = detect_script(T[i])

\* A Khmer letter, a cyclone and a Latin letter have been split into three
\* runs of 3, 4 and 1 bytes.
C15_Witness ==
  /\ attr.built /\ attr.text = <<6016, 127744, 65>>
  /\ Len(attr.runs) = 3 /\ attr.runs[2].start_index = 3
  /\ attr.runs[3] = [start_index |-> 7, end_index |-> 8, script |-> "latin"]

\* ---- pacing

Max0(n) == IF n > 0 THEN n ELSE 0

\* C16: the loop sleeps after tile k exactly when k >= 2 and another tile
\* follows: a handler that sleeps has sent two tiles or more and has more to
\* send; before tile n + 1 goes out the loop has slept max(0, n - 1) times, once
\* after each of the tiles 2 .. n; and a frame of n tiles is over after
\* max(0, n - 2) sleeps, on the render path and on the binary path.
C16_Pacing ==
  \A c \in Conns :
    LET n == Len(tiles[c])
        more == MoreTiles(frame[c].total_w, frame[c].x)
    IN /\ pc[c] = "sleep" => n >= 2 /\ more /\ frame[c].sent = n
       /\ pc[c] \in {"sleep", "tile_loop"} /\ more => frame[c].delays = Max0(n - 1)
       /\ pc[c] = "tile_loop" /\ ~more => frame[c].delays = Max0(n - 2)
       /\ FrameOver(c) => frame[c].delays = Max0(n - 2)

\* A binary frame of four tiles is over after two sleeps.
C16_Witness ==
  /\ FrameOver(1) /\ frame[1].path = "binary"
  /\ Len(tiles[1]) = 4 /\ frame[1].delays = 2

\* ---- the delivery of a frame

\* The tile that is on its way to t in the forward of c.
Pending(c, t) == fan[c].kind = "segment" /\ t \in fan[c].pend

\* A connection that was in every snapshot of the frame so far, with no send
\* raised, has every tile forwarded so far, but for the one still on its way
\* to it; in one forward nobody gets the tile twice.
C17_State ==
  \A c, t \in Conns :
    /\ t \notin fwd[c].miss =>
         fwd[c].rx[t] = IF Pending(c, t) THEN Len(tiles[c]) - 1 ELSE Len(tiles[c])
    /\ FrameOver(c) /\ t \notin fwd[c].miss => fwd[c].rx[t] = Len(tiles[c])
    /\ fan[c].kind = "segment" =>
         fan[c].got[t] = IF t \in fan[c].snap \ (fan[c].pend \cup fan[c].dead)
                         THEN 1 ELSE 0

\* A forward starts with no send of the tile before it outstanding, over the
\* devices of that moment, with a tile further right; it returns when every
\* send of its snapshot is over; and the tile a connection gets is the next
\* one in order.
C17_Step ==
  \A c \in Conns :
    /\ Len(tiles'[c]) > Len(tiles[c]) =>
         /\ fan[c] = NoFan /\ fan'[c].snap = esp32_clients
         /\ \A t \in Conns : t \in esp32_clients => t \in fan'[c].pend
         /\ tiles[c] # <<>> => Last(tiles'[c]).x > Last(tiles[c]).x
    /\ fan[c].kind = "segment" /\ fan'[c].kind # "segment" => fan[c].pend = {}
    /\ \A t \in Conns :
         fwd'[c].rx[t] > fwd[c].rx[t] =>
           /\ fwd'[c].rx[t] = fwd[c].rx[t] + 1
           /\ fwd'[c].rx[t] = Len(tiles[c]) /\ tiles'[c] = tiles[c]

\* C17: a device that is in the Devices at every forward of a frame, and to
\* which no send raises, gets every tile of the frame once and in ascending x
\* order; and every send of tile k has completed or raised before tile k + 1
\* is sent to anyone.
C17_InOrder == []C17_State /\ [][C17_Step]_vars

\* A controller's frame of three tiles is over and a device has got all three.
C17_Witness ==
  \E c, t \in Conns :
    /\ c # t /\ FrameOver(c) /\ Len(tiles[c]) = 3 /\ c \in browser_clients
    /\ t \notin fwd[c].miss /\ fwd[c].rx[t] = 3

\* ---- termination

\* The handling of the frame of c has ended with its closing status.
Finished(c) ==
  /\ pc[c] = "done" /\ statuses[c] # <<>>
  /\ Last(statuses[c]) \in {Status("info", "All segments sent"),
                            Status("info", "Image forwarded"),
                            Status("error", "Render/send error")}

\* Every pass of a tile loop moves x to the right, and a pipeline is left only
\* through its end: no step of any handler takes it back to the head of the
\* message loop, into the finally, or to another message.
C18_Step ==
  \A c \in Conns :
    /\ pc[c] \in {"advance", "seg_done"} /\ pc'[c] \in {"tile_loop", "sleep"}
         => frame'[c].x > frame[c].x /\ frame'[c].x <= frame[c].total_w
    /\ InPipeline(c) =>
         /\ msg'[c] = msg[c]
         /\ pc'[c] \notin {"new", "recv", "finally", "exit", "closed"}
         /\ pc'[c] = "done" => Finished(c)'

\* C18: when the event loop is fair and every send completes or raises, a
\* pipeline that has started comes to its completion status or to its error
\* status, whatever the other connections do; each pass of the tile loop
\* makes progress, and no pipeline is given up half-way.
C18_Terminates ==
  /\ [][C18_Step]_vars
  /\ \A c \in Conns : InPipeline(c) ~> Finished(c)

\* A frame is part-way through its tiles while the other connection, which
\* has got one of them, is being unregistered.
C18_Witness ==
  \E c, d \in Conns :
    /\ c # d /\ InPipeline(c) /\ MidFrame(c)
    /\ pc[d] = "finally" /\ d \in esp32_clients /\ fwd[c].rx[d] > 0

\* ---- who gets a tile

\* The step delivers the tile of the forward of c to t.
Delivers(c, t) == fan[c].kind = "segment" /\ fan'[c].got[t] > fan[c].got[t]

\* C19 as stated: a tile is delivered only to a connection that is in the
\* Devices at the moment of the send.
C19_OnlyDevices ==
  [][\A c, t \in Conns : Delivers(c, t) => t \in esp32_clients]_vars

\* C19, amended: a tile is delivered only to a connection that was in the
\* Devices when the send_segment call of that tile took its snapshot; the
\* next tile's call takes a new one.
C19_OnlySnapshot ==
  [][\A c, t \in Conns :
       /\ Delivers(c, t) => t \in fan[c].snap
       /\ fan'[c].kind = "segment" /\ fan[c].kind # "segment"
            => fan'[c].snap = esp32_clients /\ fan'[c].pend = esp32_clients
       /\ fan[c].kind = "segment" /\ fan'[c].kind = "segment"
            => fan'[c].snap = fan[c].snap]_vars

\* A tile is on its way to a connection that has become a controller since
\* the forward took its snapshot, and the send to it will not raise.
C19_Witness ==
  \E c, t \in Conns :
    /\ Pending(c, t) /\ t = NextRecipient(fan[c]) /\ ~broken[t]
    /\ t \in browser_clients /\ t \notin esp32_clients

\* ---- after the disconnect

\* The finally of c has discarded c from both sets.
Unregistered(c) == Announcing(c) \/ pc[c] = "closed"

\* The handler of c is between its registration and its finally.
Serving(c) == pc[c] \notin {"new", "register", "closed"} /\ msg[c] # "connect"
              /\ ~Announcing(c)

\* An unregistered connection is in neither set, and every member of a set
\* has its handler still serving it.
C20_State ==
  \A c \in Conns :
    /\ Unregistered(c) => c \notin esp32_clients \cup browser_clients
    /\ c \in esp32_clients \cup browser_clients =>
         Serving(c) \/ (msg[c] = "connect" /\ pc[c] = "recv")

\* Once unregistered, for ever unregistered; and no step, the return of
\* another handler's broadcast or forward included, puts into a set anyone
\* but the connection whose handler takes the step, at its registration or
\* at its handshake.
C20_Step ==
  \A c \in Conns :
    /\ Unregistered(c) => Unregistered(c)'
    /\ c \in (esp32_clients' \cup browser_clients') \ (esp32_clients \cup browser_clients)
         => \/ pc[c] = "register"
            \/ pc[c] = "recv" /\ msg'[c] \in {"browser", "esp32"}

\* C20: a connection that its handler's finally has unregistered is never
\* again in esp32_clients or browser_clients, whatever broadcasts and
\* forwards are under way with it in their snapshot or among their dead; the
\* sets hold only connections whose handlers still serve them.
C20_NeverAgain == []C20_State /\ [][C20_Step]_vars

\* A handler has returned while the status broadcast of another still holds
\* its connection: delivered to, or among the dead to be discarded.
C20_Witness ==
  \E c, d \in Conns :
    /\ c # d /\ pc[c] = "closed" /\ pc[d] = "fan" /\ fan[d].kind = "status"
    /\ c \in fan[d].snap /\ fan[d].pend = {}
====
